---- MODULE Spec2Model ----
(***************************************************************************)
(* Model of make_dinner.py: one run of main(), which searches for videos,  *)
(* fetches their transcripts, asks the LLM for a recipe and publishes it   *)
(* to the notes service.  The run is cut at its external calls: an action  *)
(* is the code executed from one external call's outcome up to the next    *)
(* external call (or up to the end of the run).                            *)
(*                                                                         *)
(* Text values (dish name, transcript, prompt, recipe, title) are          *)
(* sequences of tokens; string concatenation and join are sequence         *)
(* concatenation.  Optional[str] values are records [isNone, text].        *)
(***************************************************************************)
EXTENDS Integers, Sequences, FiniteSets, TLC

\* ---- bounds and input domains -------------------------------------------

\* default of the max_results parameter of search_youtube_videos_api
max_results == 3

\* longest item list a search response carries in the model
MaxItems == 4

VideoIds == {"v1", "v2"}

\* what the user may type at the prompt (token sequences, blanks kept)
DishNames == {<<"soup">>, <<" ", "soup", " ">>}

\* what datetime.today() may format to
Dates == {"2024-06-01"}

\* what loader.load_data may return: a list of documents, each with a text
DocLists == { << <<"x">> >>, << <<"x">>, <<"y">> >> }

NOTION_PARENT_ID == "parent"

\* ---- python values ------------------------------------------------------

None == [isNone |-> TRUE, text |-> <<>>]
Some(t) == [isNone |-> FALSE, text |-> t]

\* an item of the search response: item['id']['videoId'] exists or not
Items == [hasVideoId : BOOLEAN, videoId : VideoIds]

RECURSIVE SeqsUpTo(_, _)
SeqsUpTo(S, n) ==
    IF n = 0 THEN {<<>>}
    ELSE LET shorter == SeqsUpTo(S, n - 1)
         IN  shorter \cup {Append(s, x) : s \in {t \in shorter : Len(t) = n - 1}, x \in S}

\* the search response: a dict that may or may not have the key "items"
SearchResponses ==
    {[hasItems |-> FALSE, items |-> <<>>]}
      \cup {[hasItems |-> TRUE, items |-> its] : its \in SeqsUpTo(Items, MaxItems)}

\* the completion response: a falsy object, or an object with a text
LlmResponses ==
    { [truthy |-> FALSE, text |-> <<>>],
      [truthy |-> TRUE,  text |-> <<>>],
      [truthy |-> TRUE,  text |-> <<"recipe">>],
      [truthy |-> TRUE,  text |-> <<"recipe", "ref">>] }

\* the create-page response, by the shape of response["data"]["data"]["id"]:
\* each level is absent, null, or present
PageResponses ==
    { r \in [data : {"absent", "null", "dict"}, inner : {"absent", "null", "dict"},
             idtag : {"absent", "null", "str"}, id : {"", "pg1", "pg2"}] :
        /\ (r.data # "dict" => r.inner = "absent")
        /\ (r.inner # "dict" => r.idtag = "absent")
        /\ (r.idtag # "str" => r.id = "") }

\* the append-content response, by its "successfull" entry
ContentResponses == {[successfull |-> s] : s \in {"absent", "true", "false"}}

NoPageResponse == [data |-> "absent", inner |-> "absent", idtag |-> "absent", id |-> ""]
NoContentResponse == [successfull |-> "absent"]
NoLlmResponse == [truthy |-> FALSE, text |-> <<>>]

\* ---- messages printed by the program -------------------------------------

MsgSearching == "Searching for YouTube videos"
MsgApiFailed == "YouTube API request failed"
MsgNoVideos == "No videos found."
MsgExtracting == "Extracting transcripts..."
MsgFetchFailed == "Failed to fetch transcript"
MsgSelecting == "Selecting the best recipe..."
MsgNoTranscripts == "No transcripts available for analysis."
MsgNoRecipe == "No suitable recipe found."
MsgSaving == "Saving to Notion..."
MsgPageFailed == "Failed to create Notion page."
MsgSaved == "Recipe saved in Notion!"
MsgContentFailed == "Failed to add content."
MsgCompleted == "Process completed!"

\* ---- state ----------------------------------------------------------------

VARIABLES
    pc,               \* position of main: input, search, fetch, select, create, append, returned, raised
    exc,              \* what raised the uncaught exception ("" while none)
    recipe_name,      \* main: the dish name read from the prompt
    video_urls,       \* main: result of search_youtube_videos_api
    idx,              \* get_video_transcripts: position of the for loop (1-based)
    transcripts,      \* get_video_transcripts: the dict, as its (key, value) pairs in insertion order
    best_recipe,      \* main: result of select_best_recipe
    llm_response,     \* select_best_recipe: response
    page_response,    \* create_notion_page: page_response
    page_id,          \* create_notion_page: page_id
    content_response, \* create_notion_page: content_response
    out,              \* standard output, one entry per print
    steps,            \* call and return events of the functions main calls
    trace,            \* the external calls issued, in order, with their arguments
    fetched           \* outcome of each loader.load_data call, in order

vars == <<pc, exc, recipe_name, video_urls, idx, transcripts, best_recipe, llm_response,
          page_response, page_id, content_response, out, steps, trace, fetched>>

\* an external call: operation, string argument, text argument, number argument
Call(op, key, body, n) == [op |-> op, key |-> key, body |-> body, n |-> n]

CallEv(f) == "call " \o f
RetEv(f) == "return " \o f

\* ---- pure parts of the code ----------------------------------------------

\* f"https://www.youtube.com/watch?v={item['id']['videoId']}"
WatchUrl(item) == "https://www.youtube.com/watch?v=" \o item.videoId

\* the list comprehension of search_youtube_videos_api
RECURSIVE Videos(_)
Videos(items) ==
    IF items = <<>> THEN <<>>
    ELSE <<WatchUrl(Head(items))>> \o Videos(Tail(items))

\* search_response.get("items", [])
ItemsOf(resp) == IF resp.hasItems THEN resp.items ELSE <<>>

\* a KeyError in the comprehension: some item lacks ['id']['videoId']
ItemKeyError(items) == \E k \in DOMAIN items : ~items[k].hasVideoId

\* ''.join(doc.text for doc in documents)
RECURSIVE JoinDocs(_)
JoinDocs(documents) ==
    IF documents = <<>> THEN <<>>
    ELSE Head(documents) \o JoinDocs(Tail(documents))

HasKey(d, k) == \E j \in DOMAIN d : d[j][1] = k

DictSet_first(d, k, v) ==
    IF HasKey(d, k) THEN d ELSE Append(d, <<k, v>>)

\* transcripts[url] = transcript_text on an insertion-ordered dict
DictSet(d, k, v) ==
    IF HasKey(d, k)
    THEN [j \in DOMAIN d |-> IF d[j][1] = k THEN <<k, v>> ELSE d[j]]
    ELSE Append(d, <<k, v>>)

NoVideos_never(urls) == FALSE

\* `if not video_urls` in main
NoVideos(urls) == Len(urls) = 0

NoTranscripts_never(t) == FALSE

\* `if not transcripts` in select_best_recipe
NoTranscripts(t) == Len(t) = 0

LoopDone_early(urls, k) == k > Len(urls) - 1

\* the for loop of get_video_transcripts is exhausted
LoopDone(urls, k) == k > Len(urls)

system_instruction == <<"You are a world-class chef ... reference to the original video.">>

\* f"Video: {url}\n{transcripts[url]}"
Section(entry) == <<"Video: ", entry[1], "\n">> \o entry[2]

RECURSIVE JoinSections(_)
\* "\n\n".join([... for url in transcripts])
JoinSections(t) ==
    IF t = <<>> THEN <<>>
    ELSE IF Len(t) = 1 THEN Section(t[1])
    ELSE Section(t[1]) \o <<"\n\n">> \o JoinSections(Tail(t))

Prompt_unlabelled(t) ==
    system_instruction \o <<"\n\n">> \o JoinDocs([j \in DOMAIN t |-> t[j][2]])

\* f"{system_instruction}\n\n{combined_transcripts}"
Prompt(t) == system_instruction \o <<"\n\n">> \o JoinSections(t)

\* `response.text if response else None`
RecipeOf(response) == IF response.truthy THEN Some(response.text) ELSE None

RecipeMissing_noneonly(r) == r.isNone

\* `if not best_recipe` in main
RecipeMissing(r) == r.isNone \/ r.text = <<>>

\* f"Dinner on {today_date}: {recipe_name}"
NotionTitle(today_date, name) == <<"Dinner on ", today_date, ": ">> \o name

\* page_response.get("data", {}).get("data", {}).get("id") raises AttributeError
\* when an intermediate value is null
PageIdRaises(r) == r.data = "null" \/ (r.data = "dict" /\ r.inner = "null")

\* page_response.get("data", {}).get("data", {}).get("id")
PageIdOf(r) ==
    IF r.data = "dict" /\ r.inner = "dict" /\ r.idtag = "str" THEN Some(<<r.id>>) ELSE None

PageIdMissing_noneonly(p) == p.isNone

\* `if not page_id` in create_notion_page
PageIdMissing(p) == p.isNone \/ p.text = <<"">>

MainAfterPublish_silent(o) == o

\* main after create_notion_page returned: print("Process completed!")
MainAfterPublish(o) == Append(o, MsgCompleted)

\* ---- the run --------------------------------------------------------------

Init ==
    /\ pc = "input"
    /\ exc = ""
    /\ recipe_name = <<>>
    /\ video_urls = <<>>
    /\ idx = 1
    /\ transcripts = <<>>
    /\ best_recipe = None
    /\ llm_response = NoLlmResponse
    /\ page_response = NoPageResponse
    /\ page_id = None
    /\ content_response = NoContentResponse
    /\ out = <<>>
    /\ steps = <<>>
    /\ trace = <<>>
    /\ fetched = <<>>

\* main: input(...), the first print, and the call of search_youtube_videos_api
Input(name) ==
    /\ pc = "input"
    /\ recipe_name' = name
    /\ out' = Append(out, MsgSearching)
    /\ steps' = Append(steps, CallEv("search_youtube_videos_api"))
    /\ pc' = "search"
    /\ UNCHANGED <<exc, video_urls, idx, transcripts, best_recipe, llm_response,
                   page_response, page_id, content_response, trace, fetched>>

\* build(...) raises: it is outside the try block
BuildRaises ==
    /\ pc = "search"
    /\ pc' = "raised"
    /\ exc' = "build"
    /\ UNCHANGED <<recipe_name, video_urls, idx, transcripts, best_recipe, llm_response,
                   page_response, page_id, content_response, out, steps, trace, fetched>>

SearchCall == Call("search", "video", recipe_name, max_results)

\* main, once search_youtube_videos_api has returned urls
MainAfterSearch(urls, o, s, t) ==
    /\ video_urls' = urls
    /\ trace' = t
    /\ IF NoVideos(urls)
       THEN /\ out' = Append(o, MsgNoVideos)
            /\ steps' = s
            /\ pc' = "returned"
       ELSE /\ out' = Append(o, MsgExtracting)
            /\ steps' = Append(s, CallEv("get_video_transcripts"))
            /\ pc' = "fetch"
    /\ UNCHANGED <<exc, recipe_name, idx, transcripts, best_recipe, llm_response,
                   page_response, page_id, content_response, fetched>>

\* .execute() raises: caught, [] returned
SearchRaises ==
    /\ pc = "search"
    /\ MainAfterSearch(<<>>, Append(out, MsgApiFailed),
                       Append(steps, RetEv("search_youtube_videos_api")),
                       Append(trace, SearchCall))

\* .execute() returns resp
SearchReturns(resp) ==
    /\ pc = "search"
    /\ IF ItemKeyError(ItemsOf(resp))
       THEN /\ pc' = "raised"
            /\ exc' = "KeyError"
            /\ trace' = Append(trace, SearchCall)
            /\ UNCHANGED <<recipe_name, video_urls, idx, transcripts, best_recipe,
                           llm_response, page_response, page_id, content_response,
                           out, steps, fetched>>
       ELSE MainAfterSearch(Videos(ItemsOf(resp)), out,
                            Append(steps, RetEv("search_youtube_videos_api")),
                            Append(trace, SearchCall))

FetchCall == Call("fetch", video_urls[idx], <<>>, 0)

\* loader.load_data(ytlinks=[url]) returns documents
FetchOk(documents) ==
    /\ pc = "fetch"
    /\ ~LoopDone(video_urls, idx)
    /\ trace' = Append(trace, FetchCall)
    /\ fetched' = Append(fetched, [url |-> video_urls[idx], ok |-> TRUE,
                                   text |-> JoinDocs(documents)])
    /\ transcripts' = DictSet(transcripts, video_urls[idx], JoinDocs(documents))
    /\ idx' = idx + 1
    /\ UNCHANGED <<pc, exc, recipe_name, video_urls, best_recipe, llm_response,
                   page_response, page_id, content_response, out, steps>>

\* loader.load_data(ytlinks=[url]) raises: caught, the url is skipped
FetchRaises ==
    /\ pc = "fetch"
    /\ ~LoopDone(video_urls, idx)
    /\ trace' = Append(trace, FetchCall)
    /\ fetched' = Append(fetched, [url |-> video_urls[idx], ok |-> FALSE, text |-> <<>>])
    /\ out' = Append(out, MsgFetchFailed)
    /\ idx' = idx + 1
    /\ UNCHANGED <<pc, exc, recipe_name, video_urls, transcripts, best_recipe, llm_response,
                   page_response, page_id, content_response, steps>>

\* the loop ends: get_video_transcripts returns, main calls select_best_recipe
FetchLoopExit ==
    /\ pc = "fetch"
    /\ LoopDone(video_urls, idx)
    /\ out' = Append(out, MsgSelecting)
    /\ steps' = steps \o <<RetEv("get_video_transcripts"), CallEv("select_best_recipe")>>
    /\ pc' = "select"
    /\ UNCHANGED <<exc, recipe_name, video_urls, idx, transcripts, best_recipe, llm_response,
                   page_response, page_id, content_response, trace, fetched>>

\* main, once select_best_recipe has returned r
MainAfterSelect(r, o) ==
    /\ best_recipe' = r
    /\ IF RecipeMissing(r)
       THEN /\ out' = Append(o, MsgNoRecipe)
            /\ steps' = Append(steps, RetEv("select_best_recipe"))
            /\ pc' = "returned"
       ELSE /\ out' = Append(o, MsgSaving)
            /\ steps' = steps \o <<RetEv("select_best_recipe"), CallEv("create_notion_page")>>
            /\ pc' = "create"
    /\ UNCHANGED <<exc, recipe_name, video_urls, idx, transcripts,
                   page_response, page_id, content_response, fetched>>

\* select_best_recipe with an empty dict
SelectEmpty ==
    /\ pc = "select"
    /\ NoTranscripts(transcripts)
    /\ MainAfterSelect(None, Append(out, MsgNoTranscripts))
    /\ UNCHANGED <<llm_response, trace>>

\* llm.complete(...) returns response
LlmReturns(response) ==
    /\ pc = "select"
    /\ ~NoTranscripts(transcripts)
    /\ trace' = Append(trace, Call("llm", "", Prompt(transcripts), 0))
    /\ llm_response' = response
    /\ MainAfterSelect(RecipeOf(response), out)

\* llm.complete(...) raises: there is no try block around it
LlmRaises ==
    /\ pc = "select"
    /\ ~NoTranscripts(transcripts)
    /\ trace' = Append(trace, Call("llm", "", Prompt(transcripts), 0))
    /\ pc' = "raised"
    /\ exc' = "llm"
    /\ UNCHANGED <<recipe_name, video_urls, idx, transcripts, best_recipe, llm_response,
                   page_response, page_id, content_response, out, steps, fetched>>

CreateCall(today_date) ==
    Call("create", NOTION_PARENT_ID, NotionTitle(today_date, recipe_name), 0)

\* execute_action(NOTION_CREATE_NOTION_PAGE) raises: no try block around it
CreateRaises(today_date) ==
    /\ pc = "create"
    /\ trace' = Append(trace, CreateCall(today_date))
    /\ pc' = "raised"
    /\ exc' = "create"
    /\ UNCHANGED <<recipe_name, video_urls, idx, transcripts, best_recipe, llm_response,
                   page_response, page_id, content_response, out, steps, fetched>>

\* execute_action(NOTION_CREATE_NOTION_PAGE) returns resp
CreateReturns(today_date, resp) ==
    /\ pc = "create"
    /\ trace' = Append(trace, CreateCall(today_date))
    /\ page_response' = resp
    /\ IF PageIdRaises(resp)
       THEN /\ pc' = "raised"
            /\ exc' = "AttributeError"
            /\ UNCHANGED <<page_id, out, steps>>
       ELSE /\ page_id' = PageIdOf(resp)
            /\ exc' = exc
            /\ IF PageIdMissing(PageIdOf(resp))
               THEN /\ out' = MainAfterPublish(Append(out, MsgPageFailed))
                    /\ steps' = Append(steps, RetEv("create_notion_page"))
                    /\ pc' = "returned"
               ELSE /\ pc' = "append"
                    /\ UNCHANGED <<out, steps>>
    /\ UNCHANGED <<recipe_name, video_urls, idx, transcripts, best_recipe, llm_response,
                   content_response, fetched>>

AppendCall == Call("append", page_id.text[1], best_recipe.text, 0)

\* execute_action(NOTION_ADD_PAGE_CONTENT) raises: no try block around it
AppendRaises ==
    /\ pc = "append"
    /\ trace' = Append(trace, AppendCall)
    /\ pc' = "raised"
    /\ exc' = "append"
    /\ UNCHANGED <<recipe_name, video_urls, idx, transcripts, best_recipe, llm_response,
                   page_response, page_id, content_response, out, steps, fetched>>

\* execute_action(NOTION_ADD_PAGE_CONTENT) returns resp
AppendReturns(resp) ==
    /\ pc = "append"
    /\ trace' = Append(trace, AppendCall)
    /\ content_response' = resp
    /\ out' = MainAfterPublish(Append(out, IF resp.successfull = "true"
                                            THEN MsgSaved ELSE MsgContentFailed))
    /\ steps' = Append(steps, RetEv("create_notion_page"))
    /\ pc' = "returned"
    /\ UNCHANGED <<exc, recipe_name, video_urls, idx, transcripts, best_recipe, llm_response,
                   page_response, page_id, fetched>>

Next ==
    \/ \E name \in DishNames : Input(name)
    \/ BuildRaises
    \/ SearchRaises
    \/ \E resp \in SearchResponses : SearchReturns(resp)
    \/ \E documents \in DocLists : FetchOk(documents)
    \/ FetchRaises
    \/ FetchLoopExit
    \/ SelectEmpty
    \/ \E response \in LlmResponses : LlmReturns(response)
    \/ LlmRaises
    \/ \E d \in Dates : CreateRaises(d)
    \/ \E d \in Dates, resp \in PageResponses : CreateReturns(d, resp)
    \/ AppendRaises
    \/ \E resp \in ContentResponses : AppendReturns(resp)

Spec == Init /\ [][Next]_vars

\* ---- vocabulary of the properties -----------------------------------------

Has(s, x) == \E k \in DOMAIN s : s[k] = x

Range(s) == {s[k] : k \in DOMAIN s}

Last(s) == s[Len(s)]

CountOp(op) == Cardinality({k \in DOMAIN trace : trace[k].op = op})

Keys(d) == {d[j][1] : j \in DOMAIN d}

Value(d, k) == d[CHOOSE j \in DOMAIN d : d[j][1] = k][2]

SearchReturned == Has(steps, RetEv("search_youtube_videos_api"))

TranscriptsReturned == Has(steps, RetEv("get_video_transcripts"))

SelectReturned == Has(steps, RetEv("select_best_recipe"))

PublishEntered == Has(steps, CallEv("create_notion_page"))

PublishReturned == Has(steps, RetEv("create_notion_page"))

\* the fetches of url u that succeeded, by position in the list
OkIdx(u) == {k \in DOMAIN fetched : fetched[k].url = u /\ fetched[k].ok}

FirstOk(u) == CHOOSE k \in OkIdx(u) : \A j \in OkIdx(u) : k <= j

LastOk(u) == CHOOSE k \in OkIdx(u) : \A j \in OkIdx(u) : j <= k

\* every fetch of the run was made and every one of them raised
AllFetchesFailed ==
    /\ Len(video_urls) > 0
    /\ Len(fetched) = Len(video_urls)
    /\ \A k \in DOMAIN fetched : ~fetched[k].ok

\* the create-page response has no usable id at data.data.id
LacksPageId(r) == ~(r.data = "dict" /\ r.inner = "dict" /\ r.idtag = "str" /\ r.id # "")

\* where token u occurs in text p
Positions(p, u) == {i \in DOMAIN p : p[i] = u}

\* text p has, with its url at position i, the labelled section of (u, t),
\* closed by the separator or by the end of the text
SectionAt(p, i, u, t) ==
    /\ i > 1
    /\ i + 1 + Len(t) <= Len(p)
    /\ p[i] = u
    /\ p[i - 1] = "Video: "
    /\ p[i + 1] = "\n"
    /\ SubSeq(p, i + 2, i + 1 + Len(t)) = t
    /\ (i + 1 + Len(t) = Len(p) \/ p[i + 2 + Len(t)] = "\n\n")

\* url u has exactly one section in p, and it carries text t
OneSection(p, u, t) ==
    /\ Cardinality(Positions(p, u)) = 1
    /\ \A i \in Positions(p, u) : SectionAt(p, i, u, t)

PosOf(p, u) == CHOOSE i \in Positions(p, u) : TRUE

\* ---- C1 --------------------------------------------------------------------

\* C1: if search_youtube_videos_api returns an empty list, main has returned
\* and neither the transcript step, the selection step (no LLM completion)
\* nor the publish step (no create-page, no append-content) was called.
C1_EmptySearchStopsRun ==
    (SearchReturned /\ video_urls = <<>>) =>
        /\ pc = "returned"
        /\ steps = <<CallEv("search_youtube_videos_api"), RetEv("search_youtube_videos_api")>>
        /\ \A k \in DOMAIN trace : trace[k].op = "search"
        /\ fetched = <<>>

C1_Witness ==
    /\ SearchReturned
    /\ video_urls = <<>>
    /\ pc = "returned"
    /\ Last(out) = MsgNoVideos

\* ---- C2 --------------------------------------------------------------------

\* C2: if every per-URL transcript fetch fails, the selector gets an empty
\* mapping and returns nothing without any LLM completion, and main returns
\* without calling the publish step (no create-page, no append-content).
C2_AllFetchesFailStopsRun ==
    AllFetchesFailed =>
        /\ transcripts = <<>>
        /\ CountOp("llm") = 0
        /\ CountOp("create") = 0
        /\ CountOp("append") = 0
        /\ ~PublishEntered
        /\ pc \in {"fetch", "select", "returned"}
        /\ (SelectReturned => best_recipe = None /\ pc = "returned" /\ Last(out) = MsgNoRecipe)

C2_Witness ==
    /\ AllFetchesFailed
    /\ Len(video_urls) >= 2
    /\ SelectReturned
    /\ pc = "returned"

\* ---- C3 --------------------------------------------------------------------

\* C3: if the create-page response lacks a page id at data.data.id (missing
\* or falsy), append-content is never invoked; append-content is only invoked
\* right after create-page and with the page id of that response.
C3_AppendNeedsPageId ==
    /\ (LacksPageId(page_response) => CountOp("append") = 0)
    /\ \A k \in DOMAIN trace :
          trace[k].op = "append" =>
              /\ k > 1
              /\ trace[k - 1].op = "create"
              /\ ~LacksPageId(page_response)
              /\ trace[k].key = page_response.id

C3_Witness ==
    /\ pc = "returned"
    /\ CountOp("create") = 1
    /\ page_response.idtag = "str"
    /\ page_response.id = ""
    /\ PublishReturned

\* ---- C4 --------------------------------------------------------------------

\* C4: no failure of an external call (search request, transcript fetch, LLM
\* completion, create-page, append-content) ends the run in an uncaught
\* exception.
C4_NoUncaughtExternalFailure ==
    pc = "raised" => exc \notin {"llm", "create", "append"}

\* ---- C5 --------------------------------------------------------------------

\* C5 as claimed: after get_video_transcripts, the keys are among the input
\* URLs, a URL whose fetch raised is absent, a URL whose fetch succeeded is
\* present with that fetch's text, and every URL of the list was fetched.
C5_Original ==
    TranscriptsReturned =>
        /\ Len(fetched) = Len(video_urls)
        /\ \A k \in DOMAIN fetched : fetched[k].url = video_urls[k]
        /\ Keys(transcripts) \subseteq Range(video_urls)
        /\ \A k \in DOMAIN fetched :
              IF fetched[k].ok
              THEN /\ fetched[k].url \in Keys(transcripts)
                   /\ Value(transcripts, fetched[k].url) = fetched[k].text
              ELSE fetched[k].url \notin Keys(transcripts)

\* C5 amended: after get_video_transcripts, the keys are among the input
\* URLs, a URL is absent exactly when none of its fetches succeeded, a URL
\* with a successful fetch is present once with the text of its last
\* successful fetch, and every URL of the list was fetched, in list order,
\* whatever failed before it.
C5_Amended ==
    TranscriptsReturned =>
        /\ Len(fetched) = Len(video_urls)
        /\ \A k \in DOMAIN fetched : fetched[k].url = video_urls[k]
        /\ Keys(transcripts) \subseteq Range(video_urls)
        /\ Cardinality(Keys(transcripts)) = Len(transcripts)
        /\ \A u \in Range(video_urls) :
              IF OkIdx(u) = {}
              THEN u \notin Keys(transcripts)
              ELSE /\ u \in Keys(transcripts)
                   /\ Value(transcripts, u) = fetched[LastOk(u)].text

\* a repeated URL fetched twice with different texts, then failing, and a
\* later URL fetched after that failure
C5_Witness ==
    /\ TranscriptsReturned
    /\ \E a, b, c, d \in DOMAIN fetched :
          /\ a < b /\ b < c /\ c < d
          /\ fetched[a].url = fetched[b].url /\ fetched[b].url = fetched[c].url
          /\ fetched[a].ok /\ fetched[b].ok /\ fetched[a].text # fetched[b].text
          /\ ~fetched[c].ok
          /\ fetched[d].url # fetched[c].url /\ fetched[d].ok

\* ---- C6 --------------------------------------------------------------------

\* the prompt opens with the fixed instruction and has one labelled section
\* per entry of the mapping, in insertion order
PromptFollowsMapping(p) ==
    /\ Len(p) > Len(system_instruction)
    /\ SubSeq(p, 1, Len(system_instruction)) = system_instruction
    /\ p[Len(system_instruction) + 1] = "\n\n"
    /\ Cardinality(Positions(p, "Video: ")) = Len(transcripts)
    /\ \A j \in DOMAIN transcripts : OneSection(p, transcripts[j][1], transcripts[j][2])
    /\ \A j1, j2 \in DOMAIN transcripts :
          j1 < j2 => PosOf(p, transcripts[j1][1]) < PosOf(p, transcripts[j2][1])

\* C6 as claimed: the prompt of an LLM completion is the instruction followed
\* by one section per mapping entry in insertion order; every successfully
\* fetched transcript appears with its URL exactly once, and no URL whose
\* fetch failed appears.
C6_Original ==
    \A k \in DOMAIN trace :
        trace[k].op = "llm" =>
            /\ PromptFollowsMapping(trace[k].body)
            /\ \A j \in DOMAIN fetched :
                  IF fetched[j].ok
                  THEN OneSection(trace[k].body, fetched[j].url, fetched[j].text)
                  ELSE Positions(trace[k].body, fetched[j].url) = {}

\* C6 amended: the prompt of an LLM completion is the instruction followed by
\* one section per mapping entry in insertion order; every URL with at least
\* one successful fetch appears exactly once, with the text of its last
\* successful fetch, the sections ordered by first successful fetch; a URL
\* none of whose fetches succeeded does not appear.
C6_Amended ==
    \A k \in DOMAIN trace :
        trace[k].op = "llm" =>
            /\ PromptFollowsMapping(trace[k].body)
            /\ \A u \in Range(video_urls) :
                  IF OkIdx(u) = {}
                  THEN Positions(trace[k].body, u) = {}
                  ELSE OneSection(trace[k].body, u, fetched[LastOk(u)].text)
            /\ \A u1, u2 \in Range(video_urls) :
                  (OkIdx(u1) # {} /\ OkIdx(u2) # {} /\ FirstOk(u1) < FirstOk(u2))
                      => PosOf(trace[k].body, u1) < PosOf(trace[k].body, u2)

\* a completion was issued for two transcripts, one of a URL that was
\* fetched again (and failed) after the other's, and a third URL failed
C6_Witness ==
    /\ CountOp("llm") = 1
    /\ Len(transcripts) = 2
    /\ \E a, b \in DOMAIN fetched :
          /\ a < b
          /\ fetched[a].url = fetched[b].url
          /\ fetched[a].ok
          /\ ~fetched[b].ok
    /\ \E a \in DOMAIN fetched : fetched[a].ok /\ Len(fetched[a].text) = 2

\* ---- C7 --------------------------------------------------------------------

\* C7: the external calls of a run are a prefix of: one search, one fetch per
\* returned URL in list order, one LLM completion, one create-page, one
\* append-content; no other operation is ever called and search, completion,
\* create-page and append-content happen at most once.
C7_FixedCallOrder ==
    /\ \A k \in DOMAIN trace :
          LET n == Len(video_urls) IN
          /\ k <= n + 4
          /\ (k = 1 => trace[k].op = "search")
          /\ (k > 1 /\ k <= n + 1 => trace[k].op = "fetch" /\ trace[k].key = video_urls[k - 1])
          /\ (k = n + 2 => trace[k].op = "llm")
          /\ (k = n + 3 => trace[k].op = "create")
          /\ (k = n + 4 => trace[k].op = "append")
    /\ \A op \in {"search", "llm", "create", "append"} : CountOp(op) <= 1
    /\ \A k \in DOMAIN trace : trace[k].op \in {"search", "fetch", "llm", "create", "append"}

C7_Witness ==
    /\ Len(video_urls) >= 3
    /\ Len(trace) = Len(video_urls) + 4
    /\ pc = "returned"

\* ---- C8 --------------------------------------------------------------------

\* C8: search_youtube_videos_api called with max_results N returns at most N
\* URLs, whatever the search response.
C8_AtMostMaxResults ==
    SearchReturned => Len(video_urls) <= max_results

\* ---- C9 --------------------------------------------------------------------

\* main returned without reaching its completion message
EndedEarly == pc = "returned" /\ ~Has(out, MsgCompleted)

\* C9: main returns early exactly when the search yields no videos or the
\* selection yields no recipe; missing transcripts, a create-page response
\* without page id and an append-content failure leave the control flow
\* alone: whenever create_notion_page was entered and returned, main printed
\* its completion message and returned.
C9_OnlyTwoEarlyExits ==
    /\ pc = "returned" =>
          (EndedEarly <=>
              \/ (SearchReturned /\ video_urls = <<>>)
              \/ (SelectReturned /\ (best_recipe.isNone \/ best_recipe.text = <<>>)))
    /\ EndedEarly => ~PublishEntered
    /\ PublishReturned => pc = "returned" /\ Last(out) = MsgCompleted

\* the page was created but the content was refused, after a failed fetch
C9_Witness ==
    /\ PublishReturned
    /\ \E k \in DOMAIN fetched : ~fetched[k].ok
    /\ CountOp("append") = 1
    /\ content_response.successfull = "false"
    /\ Has(out, MsgContentFailed)

\* ---- C10 -------------------------------------------------------------------

\* C10: create_notion_page is called only after an LLM completion that
\* returned non-empty text; an absent or empty selection makes main stop with
\* the not-found message and no create-page call; append-content sends
\* exactly the text of the completion, and the page title ends with the dish
\* name as typed.
C10_PublishNeedsRecipe ==
    /\ PublishEntered =>
          /\ CountOp("llm") = 1
          /\ llm_response.truthy
          /\ llm_response.text # <<>>
    /\ (SelectReturned /\ (~llm_response.truthy \/ llm_response.text = <<>>)) =>
          /\ pc = "returned"
          /\ Last(out) = MsgNoRecipe
          /\ CountOp("create") = 0
    /\ \A k \in DOMAIN trace :
          /\ trace[k].op = "append" => trace[k].body = llm_response.text
          /\ trace[k].op = "create" =>
                /\ Len(trace[k].body) = 3 + Len(recipe_name)
                /\ SubSeq(trace[k].body, 4, Len(trace[k].body)) = recipe_name
                /\ trace[k].body[1] = "Dinner on "
                /\ trace[k].body[3] = ": "

C10_Witness ==
    /\ CountOp("append") = 1
    /\ Len(llm_response.text) = 2
    /\ recipe_name[1] = " "
    /\ pc = "returned"

====
